---- MODULE Spec2Model ----
(***************************************************************************)
(* Model of the reducers of src/engine/reduce.rs: per-row init, bulk       *)
(* combine over (state, multiplicity) entries, finish, and the IntSum      *)
(* semigroup state (plus_equals / multiply / is_zero).                     *)
(***************************************************************************)
EXTENDS Integers, Sequences, FiniteSets, TLC

(***************************************************************************)
(* Bounds of the model.                                                    *)
(***************************************************************************)
\* rows delivered to one group
MaxRows == 3
\* largest multiplicity of one row
MaxCnt == 2
\* insert/retract steps of the IntSum accumulator
MaxOps == 4
\* significand width of the model's floating-point format (f64 has 53)
FloatMantBits == 2

(***************************************************************************)
(* Value and Key (super::{Key, Value}).  A Value is [tag, v]; Key is a     *)
(* small unsigned integer of KeyBits bits.                                 *)
(***************************************************************************)
VNone == [tag |-> "None", v |-> 0]
VInt(i) == [tag |-> "Int", v |-> i]
VFloat(f) == [tag |-> "Float", v |-> f]
VPointer(k) == [tag |-> "Pointer", v |-> k]
VString(s) == [tag |-> "String", v |-> s]
VTuple(s) == [tag |-> "Tuple", v |-> s]
VIntArray(a) == [tag |-> "IntArray", v |-> a]
VFloatArray(a) == [tag |-> "FloatArray", v |-> a]

\* position of a variant in the Value enumeration
ValueRank(val) ==
    CASE val.tag = "None" -> 0
      [] val.tag = "Int" -> 2
      [] val.tag = "Float" -> 3
      [] val.tag = "Pointer" -> 4
      [] OTHER -> 5

\* Value's total order on the scalar variants: variant first, payload second
ValueLess(a, b) ==
    \/ ValueRank(a) < ValueRank(b)
    \/ /\ ValueRank(a) = ValueRank(b)
       /\ a.tag \in {"Int", "Float", "Pointer"}
       /\ a.v < b.v

\* exclusive or of two naturals, bit by bit
RECURSIVE BitXor(_, _)
BitXor(a, b) ==
    IF a = 0 /\ b = 0 THEN 0
    ELSE (((a % 2) + (b % 2)) % 2) + 2 * BitXor(a \div 2, b \div 2)

\* the low bits of the SALT constant that fall inside the model's key width
SALT == 3

\* Key::salted_with
salted_with(key, seed) == BitXor(key, seed)

(***************************************************************************)
(* Floating point: a value is an integer number of units, and every        *)
(* operation rounds its exact result to FloatMantBits significant bits,    *)
(* ties to even, as IEEE 754 addition and multiplication do.               *)
(***************************************************************************)
RECURSIVE Pow2(_)
Pow2(n) == IF n = 0 THEN 1 ELSE 2 * Pow2(n - 1)

Abs(x) == IF x < 0 THEN -x ELSE x

RECURSIVE Ulp(_)
Ulp(m) == IF m < Pow2(FloatMantBits) THEN 1 ELSE 2 * Ulp(m \div 2)

FloatRound(x) ==
    LET m == Abs(x)
        u == Ulp(m)
        q == m \div u
        r == m % u
        up == IF 2 * r > u THEN 1
              ELSE IF 2 * r < u THEN 0
              ELSE q % 2
        res == (q + up) * u
    IN  IF x < 0 THEN -res ELSE res

FloatAdd(a, b) == FloatRound(a + b)

FloatMul(a, b) == FloatRound(a * b)

\* the first float of the model whose successor is 2 away
FloatBig == Pow2(FloatMantBits)

(***************************************************************************)
(* Results.  init gives Some(state), None or panics; combine gives a state *)
(* or panics; the engine's output for a group is a Value or a panic.       *)
(***************************************************************************)
Some(s) == [res |-> "some", st |-> s]
NoState == [res |-> "none", st |-> 0]
InitPanic(m) == [res |-> "panic", st |-> m]

Ok(s) == [ok |-> TRUE, ret |-> s]
Panic(m) == [ok |-> FALSE, ret |-> m]

Entry(s, c) == [state |-> s, cnt |-> c]

(***************************************************************************)
(* IntSumState and IntSumReducer.                                          *)
(***************************************************************************)
IntSumState(c, s) == [count |-> c, sum |-> s]

is_zero(self) == self.count = 0 /\ self.sum = 0

plus_equals(self, rhs) == IntSumState(self.count + rhs.count, self.sum + rhs.sum)

\* multiply that scales the sum and leaves the count
multiply_sum_only(self, rhs) == IntSumState(self.count, self.sum * rhs)

multiply(self, rhs) == IntSumState(self.count * rhs, self.sum * rhs)

single(val) == IntSumState(1, val)

\* init that skips a value that is not an integer
IntSumInitSkipping(key, value) ==
    IF value.tag = "Int" THEN Some(single(value.v)) ELSE NoState

IntSumInit(key, value) ==
    IF value.tag = "Int" THEN Some(single(value.v))
    ELSE InitPanic("unsupported type for int_sum")

IntSumFinish(state) == VInt(state.sum)

(***************************************************************************)
(* FloatSumReducer.                                                        *)
(***************************************************************************)
FloatSumInitUnary(key, value) ==
    IF value.tag = "Float" THEN Some(value.v) ELSE NoState

FloatSumCombine(entries) ==
    LET acc[i \in 0..Len(entries)] ==
            IF i = 0 THEN 0
            ELSE FloatAdd(acc[i - 1], FloatMul(entries[i].state, entries[i].cnt))
    IN  Ok(acc[Len(entries)])

FloatSumFinish(state) == VFloat(state)

(***************************************************************************)
(* ArraySumState and ArraySumReducer.  All arrays of the model have the    *)
(* same shape.                                                             *)
(***************************************************************************)
IntArrayState(a) == [kind |-> "IntArray", a |-> a]
FloatArrayState(a) == [kind |-> "FloatArray", a |-> a]

\* new that never scales the array by the multiplicity
ArraySumStateNewUnscaled(value, cnt) ==
    CASE value.tag = "IntArray" -> Ok(IntArrayState(value.v))
      [] value.tag = "FloatArray" -> Ok(FloatArrayState(value.v))
      [] OTHER -> Panic("unsupported type for npsum")

ArraySumStateNew(value, cnt) ==
    CASE value.tag = "IntArray" ->
            IF cnt = 1 THEN Ok(IntArrayState(value.v))
            ELSE Ok(IntArrayState([i \in DOMAIN value.v |-> value.v[i] * cnt]))
      [] value.tag = "FloatArray" ->
            IF cnt = 1 THEN Ok(FloatArrayState(value.v))
            ELSE Ok(FloatArrayState([i \in DOMAIN value.v |-> FloatMul(value.v[i], cnt)]))
      [] OTHER -> Panic("unsupported type for npsum")

ArraySumStateAdd(lhs, rhs) ==
    CASE lhs.kind = "IntArray" /\ rhs.kind = "IntArray" ->
            Ok(IntArrayState([i \in DOMAIN lhs.a |-> lhs.a[i] + rhs.a[i]]))
      [] lhs.kind = "FloatArray" /\ rhs.kind = "FloatArray" ->
            Ok(FloatArrayState([i \in DOMAIN lhs.a |-> FloatAdd(lhs.a[i], rhs.a[i])]))
      [] OTHER -> Panic("mixing types in npsum is not allowed")

ValueFromArraySumState(state) ==
    IF state.kind = "IntArray" THEN VIntArray(state.a) ELSE VFloatArray(state.a)

ArraySumInitUnary(key, value) == Some(value)

ArraySumCombine(entries) ==
    LET new(i) == ArraySumStateNew(entries[i].state, entries[i].cnt)
        acc[i \in 1..Len(entries)] ==
            IF i = 1 THEN new(1)
            ELSE IF ~acc[i - 1].ok THEN acc[i - 1]
            ELSE IF ~new(i).ok THEN new(i)
            ELSE ArraySumStateAdd(acc[i - 1].ret, new(i).ret)
        last == acc[Len(entries)]
    IN  IF last.ok THEN Ok(ValueFromArraySumState(last.ret)) ELSE last

ArraySumFinish(state) == state

(***************************************************************************)
(* UniqueReducer.  The state is Option<Value>.                             *)
(***************************************************************************)
OptSome(val) == [some |-> TRUE, val |-> val]
OptNone == [some |-> FALSE, val |-> VNone]

UniqueInitUnary(key, value) == Some(OptSome(value))

UniqueCombine(entries) ==
    IF Len(entries) > 1
    THEN Panic("More than one distinct value passed to the unique reducer.")
    ELSE Ok(entries[1].state)

UniqueFinish(state) == IF state.some THEN state.val ELSE VNone

(***************************************************************************)
(* MinReducer and MaxReducer.  Iterator::min keeps the first of equal      *)
(* elements, Iterator::max the last.                                       *)
(***************************************************************************)
MinInitUnary(key, value) == Some(value)

MinCombine(entries) ==
    LET best[i \in 1..Len(entries)] ==
            IF i = 1 THEN entries[1].state
            ELSE IF ValueLess(entries[i].state, best[i - 1]) THEN entries[i].state
            ELSE best[i - 1]
    IN  Ok(best[Len(entries)])

MinFinish(state) == state

MaxInitUnary(key, value) == Some(value)

MaxCombine(entries) ==
    LET best[i \in 1..Len(entries)] ==
            IF i = 1 THEN entries[1].state
            ELSE IF ValueLess(entries[i].state, best[i - 1]) THEN best[i - 1]
            ELSE entries[i].state
    IN  Ok(best[Len(entries)])

MaxFinish(state) == state

(***************************************************************************)
(* ArgMinReducer and ArgMaxReducer.  The state is (Value, Key).            *)
(***************************************************************************)
ValueKey(val, key) == [value |-> val, key |-> key]

\* the derived order of the pair (Value, Key)
ValueKeyLess(a, b) ==
    \/ ValueLess(a.value, b.value)
    \/ a.value = b.value /\ a.key < b.key

\* the order of the sort key (value, Reverse(key))
ValueReverseKeyLess(a, b) ==
    \/ ValueLess(a.value, b.value)
    \/ a.value = b.value /\ b.key < a.key

ArgMinInitUnary(key, value) == Some(ValueKey(value, key))

ArgMinCombine(entries) ==
    LET best[i \in 1..Len(entries)] ==
            IF i = 1 THEN entries[1].state
            ELSE IF ValueKeyLess(entries[i].state, best[i - 1]) THEN entries[i].state
            ELSE best[i - 1]
    IN  Ok(best[Len(entries)])

ArgMinFinish(state) == VPointer(state.key)

ArgMaxInitUnary(key, value) == Some(ValueKey(value, key))

\* max over the plain (Value, Key) order: the largest key among equal values
ArgMaxCombineByKey(entries) ==
    LET best[i \in 1..Len(entries)] ==
            IF i = 1 THEN entries[1].state
            ELSE IF ValueKeyLess(entries[i].state, best[i - 1]) THEN best[i - 1]
            ELSE entries[i].state
    IN  Ok(best[Len(entries)])

ArgMaxCombine(entries) ==
    LET best[i \in 1..Len(entries)] ==
            IF i = 1 THEN entries[1].state
            ELSE IF ValueReverseKeyLess(entries[i].state, best[i - 1]) THEN best[i - 1]
            ELSE entries[i].state
    IN  Ok(best[Len(entries)])

ArgMaxFinish(state) == VPointer(state.key)

(***************************************************************************)
(* AnyReducer.  The state is (Key, Value).                                 *)
(***************************************************************************)
KeyValue(key, val) == [key |-> key, value |-> val]

\* the order of the sort key (key, value), the key left unsalted
RawKeyValueLess(a, b) ==
    \/ a.key < b.key
    \/ a.key = b.key /\ ValueLess(a.value, b.value)

\* the order of the sort key (key.salted_with(SALT), value)
SaltedKeyValueLess(a, b) ==
    \/ salted_with(a.key, SALT) < salted_with(b.key, SALT)
    \/ salted_with(a.key, SALT) = salted_with(b.key, SALT) /\ ValueLess(a.value, b.value)

AnyInitUnary(key, value) == Some(KeyValue(key, value))

AnyCombine(entries) ==
    LET best[i \in 1..Len(entries)] ==
            IF i = 1 THEN entries[1].state
            ELSE IF SaltedKeyValueLess(entries[i].state, best[i - 1]) THEN entries[i].state
            ELSE best[i - 1]
    IN  Ok(best[Len(entries)])

AnyFinish(state) == state.value

(***************************************************************************)
(* SortedTupleReducer and TupleReducer.                                    *)
(***************************************************************************)
\* the elements of one state taken once, whatever the multiplicity
ExpandStateOnce(state, cnt) == state

\* repeat(v).take(cnt) for every element of one state, in order
RECURSIVE ExpandState(_, _)
ExpandState(state, cnt) ==
    IF state = <<>> THEN <<>>
    ELSE [i \in 1..cnt |-> Head(state)] \o ExpandState(Tail(state), cnt)

\* flat_map over the entries, collected into one vector
RECURSIVE ExpandEntries(_)
ExpandEntries(entries) ==
    IF entries = <<>> THEN <<>>
    ELSE ExpandState(Head(entries).state, Head(entries).cnt) \o ExpandEntries(Tail(entries))

\* slice::sort on Vec<Value>: stable, by Value's order
RECURSIVE SortValues(_)
SortValues(s) ==
    IF s = <<>> THEN <<>>
    ELSE LET front == SortValues(SubSeq(s, 1, Len(s) - 1))
             x == s[Len(s)]
             n == Cardinality({i \in 1..Len(front) : ~ValueLess(x, front[i])})
         IN  SubSeq(front, 1, n) \o <<x>> \o SubSeq(front, n + 1, Len(front))

SortedTupleInitUnary(skip_nones, key, value) ==
    IF value = VNone /\ skip_nones THEN Some(<<>>) ELSE Some(<<value>>)

SortedTupleCombine(entries) == Ok(ExpandEntries(entries))

\* finish that emits the elements as collected
SortedTupleFinishUnsorted(state) == VTuple(state)

SortedTupleFinish(state) == VTuple(SortValues(state))

Triple(sec, key, val) == [sec |-> sec, key |-> key, val |-> val]

\* the derived order of Option<Value>: None before every Some
OptionLess(a, b) ==
    \/ ~a.some /\ b.some
    \/ a.some /\ b.some /\ ValueLess(a.val, b.val)

\* an order of the triples that looks at the key before the secondary value
TripleLessKeyFirst(a, b) ==
    \/ a.key < b.key
    \/ a.key = b.key /\ OptionLess(a.sec, b.sec)
    \/ a.key = b.key /\ a.sec = b.sec /\ ValueLess(a.val, b.val)

\* the derived order of the triple (Option<Value>, Key, Value)
TripleLess(a, b) ==
    \/ OptionLess(a.sec, b.sec)
    \/ a.sec = b.sec /\ a.key < b.key
    \/ a.sec = b.sec /\ a.key = b.key /\ ValueLess(a.val, b.val)

\* slice::sort on Vec<(Option<Value>, Key, Value)>
RECURSIVE SortTriples(_)
SortTriples(s) ==
    IF s = <<>> THEN <<>>
    ELSE LET front == SortTriples(SubSeq(s, 1, Len(s) - 1))
             x == s[Len(s)]
             n == Cardinality({i \in 1..Len(front) : ~TripleLess(x, front[i])})
         IN  SubSeq(front, 1, n) \o <<x>> \o SubSeq(front, n + 1, Len(front))

TupleInit(skip_nones, key, values) ==
    IF values[1] = VNone /\ skip_nones THEN Some(<<>>)
    ELSE IF Len(values) > 1 THEN Some(<<Triple(OptSome(values[2]), key, values[1])>>)
    ELSE Some(<<Triple(OptNone, key, values[1])>>)

TupleCombine(entries) == Ok(ExpandEntries(entries))

TupleFinish(state) ==
    LET sorted == SortTriples(state)
    IN  VTuple([i \in 1..Len(sorted) |-> sorted[i].val])

(***************************************************************************)
(* The Reducer enumeration and the dispatch of the three operations.  A    *)
(* reducer is [kind, skip_nones, ncols]: ncols is the number of columns    *)
(* the caller passes to init (two for a Tuple with a secondary column).    *)
(***************************************************************************)
Rd(kind, skip, ncols) == [kind |-> kind, skip_nones |-> skip, ncols |-> ncols]

UnaryKinds ==
    {"FloatSum", "ArraySum", "Unique", "Min", "ArgMin", "Max", "ArgMax", "Any"}

Reducer ==
    {Rd(k, FALSE, 1) : k \in UnaryKinds \cup {"IntSum"}}
        \cup {Rd("SortedTuple", b, 1) : b \in BOOLEAN}
        \cup {Rd("Tuple", b, n) : b \in BOOLEAN, n \in {1, 2}}

\* init of ReducerImpl / SemigroupReducerImpl; a unary reducer sees values[0]
ReducerInit(rd, key, values) ==
    CASE rd.kind = "IntSum" -> IntSumInit(key, values[1])
      [] rd.kind = "FloatSum" -> FloatSumInitUnary(key, values[1])
      [] rd.kind = "ArraySum" -> ArraySumInitUnary(key, values[1])
      [] rd.kind = "Unique" -> UniqueInitUnary(key, values[1])
      [] rd.kind = "Min" -> MinInitUnary(key, values[1])
      [] rd.kind = "ArgMin" -> ArgMinInitUnary(key, values[1])
      [] rd.kind = "Max" -> MaxInitUnary(key, values[1])
      [] rd.kind = "ArgMax" -> ArgMaxInitUnary(key, values[1])
      [] rd.kind = "Any" -> AnyInitUnary(key, values[1])
      [] rd.kind = "SortedTuple" -> SortedTupleInitUnary(rd.skip_nones, key, values[1])
      [] rd.kind = "Tuple" -> TupleInit(rd.skip_nones, key, values)

\* the accumulation of a semigroup state over the entries of a group:
\* every state scaled by its multiplicity and added
SemigroupAccumulate(entries) ==
    LET acc[i \in 1..Len(entries)] ==
            IF i = 1 THEN multiply(entries[1].state, entries[1].cnt)
            ELSE plus_equals(acc[i - 1], multiply(entries[i].state, entries[i].cnt))
    IN  Ok(acc[Len(entries)])

ReducerCombine(rd, entries) ==
    CASE rd.kind = "IntSum" -> SemigroupAccumulate(entries)
      [] rd.kind = "FloatSum" -> FloatSumCombine(entries)
      [] rd.kind = "ArraySum" -> ArraySumCombine(entries)
      [] rd.kind = "Unique" -> UniqueCombine(entries)
      [] rd.kind = "Min" -> MinCombine(entries)
      [] rd.kind = "ArgMin" -> ArgMinCombine(entries)
      [] rd.kind = "Max" -> MaxCombine(entries)
      [] rd.kind = "ArgMax" -> ArgMaxCombine(entries)
      [] rd.kind = "Any" -> AnyCombine(entries)
      [] rd.kind = "SortedTuple" -> SortedTupleCombine(entries)
      [] rd.kind = "Tuple" -> TupleCombine(entries)

ReducerFinish(rd, state) ==
    CASE rd.kind = "IntSum" -> IntSumFinish(state)
      [] rd.kind = "FloatSum" -> FloatSumFinish(state)
      [] rd.kind = "ArraySum" -> ArraySumFinish(state)
      [] rd.kind = "Unique" -> UniqueFinish(state)
      [] rd.kind = "Min" -> MinFinish(state)
      [] rd.kind = "ArgMin" -> ArgMinFinish(state)
      [] rd.kind = "Max" -> MaxFinish(state)
      [] rd.kind = "ArgMax" -> ArgMaxFinish(state)
      [] rd.kind = "Any" -> AnyFinish(state)
      [] rd.kind = "SortedTuple" -> SortedTupleFinish(state)
      [] rd.kind = "Tuple" -> TupleFinish(state)

\* finish(combine(entries)): a Value, or the panic of combine
Reduce(rd, entries) ==
    LET c == ReducerCombine(rd, entries)
    IN  IF c.ok THEN Ok(ReducerFinish(rd, c.ret)) ELSE c

\* combine over the entries at the positions of part, in their order
RECURSIVE Pick(_, _)
Pick(entries, part) ==
    IF entries = <<>> THEN <<>>
    ELSE LET n == Len(entries)
             front == Pick(SubSeq(entries, 1, n - 1), part)
         IN  IF n \in part THEN Append(front, entries[n]) ELSE front

\* combine each part, then combine the two states with multiplicity 1
ReduceInParts(rd, entries, part) ==
    LET a == ReducerCombine(rd, Pick(entries, part))
        b == ReducerCombine(rd, Pick(entries, (1..Len(entries)) \ part))
    IN  IF ~a.ok THEN a
        ELSE IF ~b.ok THEN b
        ELSE Reduce(rd, <<Entry(a.ret, 1), Entry(b.ret, 1)>>)

(***************************************************************************)
(* The rows a group of each reducer can receive.                           *)
(***************************************************************************)
InRow(key, values) == [key |-> key, values |-> values]

RowsOf(rd) ==
    CASE rd.kind = "IntSum" ->
            {InRow(0, <<v>>) : v \in {VInt(5), VInt(-3), VInt(10), VNone}}
      [] rd.kind = "FloatSum" ->
            {InRow(0, <<v>>) : v \in {VFloat(1), VFloat(FloatBig), VInt(1)}}
      [] rd.kind = "ArraySum" ->
            {InRow(0, <<v>>) : v \in {VIntArray(<<1, 2>>), VIntArray(<<3, 4>>),
                                      VFloatArray(<<1, FloatBig>>),
                                      VFloatArray(<<FloatBig, 1>>), VInt(1)}}
      [] rd.kind = "Unique" ->
            {InRow(k, <<v>>) : k \in {1, 2}, v \in {VString("a"), VString("b")}}
      [] rd.kind \in {"Min", "Max", "SortedTuple"} ->
            {InRow(0, <<v>>) : v \in {VNone, VInt(1), VInt(3)}}
      [] rd.kind \in {"ArgMin", "ArgMax"} ->
            {InRow(1, <<VInt(5)>>), InRow(2, <<VInt(5)>>), InRow(3, <<VInt(2)>>),
             InRow(1, <<VInt(2)>>), InRow(2, <<VInt(2)>>)}
      [] rd.kind = "Any" ->
            {InRow(0, <<VInt(2)>>), InRow(1, <<VInt(1)>>), InRow(1, <<VInt(2)>>),
             InRow(2, <<VInt(1)>>), InRow(2, <<VInt(2)>>)}
      [] rd.kind = "Tuple" /\ rd.ncols = 1 ->
            {InRow(1, <<VInt(3)>>), InRow(2, <<VInt(1)>>),
             InRow(1, <<VNone>>), InRow(2, <<VInt(3)>>)}
      [] rd.kind = "Tuple" /\ rd.ncols = 2 ->
            {InRow(1, <<VInt(3), VInt(2)>>), InRow(2, <<VInt(1), VInt(1)>>),
             InRow(1, <<VNone, VInt(1)>>), InRow(2, <<VInt(1), VInt(2)>>)}

(***************************************************************************)
(* State.  One group of one reducer: the rows delivered so far with their  *)
(* multiplicities, the (state, multiplicity) entries init produced, and    *)
(* the outputs of the reductions run on them.  The IntSum accumulator is   *)
(* kept beside it with the history of what was inserted and retracted.     *)
(***************************************************************************)
VARIABLES reducer, rows, entries, pc, whole, reordered, parts,
          acc, nIns, nRet, sumIns, sumRet, pcSum, result

vars == <<reducer, rows, entries, pc, whole, reordered, parts,
          acc, nIns, nRet, sumIns, sumRet, pcSum, result>>

groupVars == <<reducer, rows, entries, pc, whole, reordered, parts>>
sumVars == <<acc, nIns, nRet, sumIns, sumRet, pcSum, result>>

NotRun == Panic("not run")

IsRun(r) == r.ok \/ r.ret # "not run"

Row(key, values, cnt) == [key |-> key, values |-> values, cnt |-> cnt]

InitSum ==
    /\ acc = IntSumState(0, 0)
    /\ nIns = 0 /\ nRet = 0 /\ sumIns = 0 /\ sumRet = 0
    /\ pcSum = "accumulate"
    /\ result = VNone

InitGroup(rds) ==
    /\ reducer \in rds
    /\ rows = <<>>
    /\ entries = <<>>
    /\ pc = "collect"
    /\ whole = NotRun /\ reordered = NotRun /\ parts = NotRun
    /\ InitSum

\* one row of the group reaches the reducer: init makes its state
Deliver(row, cnt) ==
    /\ pc = "collect"
    /\ Len(rows) < MaxRows
    /\ rows' = Append(rows, Row(row.key, row.values, cnt))
    /\ LET i == ReducerInit(reducer, row.key, row.values)
       IN  CASE i.res = "some" ->
                    /\ entries' = Append(entries, Entry(i.st, cnt))
                    /\ pc' = pc
             [] i.res = "none" ->
                    /\ entries' = entries
                    /\ pc' = pc
             [] i.res = "panic" ->
                    /\ entries' = entries
                    /\ pc' = "panicked"
    /\ UNCHANGED <<reducer, whole, reordered, parts>>
    /\ UNCHANGED sumVars

\* combine over all entries in the order of delivery, then finish
CombineWhole ==
    /\ pc = "collect"
    /\ entries # <<>>
    /\ whole' = Reduce(reducer, entries)
    /\ pc' = "finished"
    /\ UNCHANGED <<reducer, rows, entries, reordered, parts>>
    /\ UNCHANGED sumVars

Perms(n) == {p \in [1..n -> 1..n] : \A i, j \in 1..n : p[i] = p[j] => i = j}

\* the same entries handed to combine in another order
CombineReordered(perm) ==
    /\ pc = "finished"
    /\ ~IsRun(reordered)
    /\ reordered' = Reduce(reducer, [i \in 1..Len(entries) |-> entries[perm[i]]])
    /\ UNCHANGED <<reducer, rows, entries, pc, whole, parts>>
    /\ UNCHANGED sumVars

\* the entries split in two, each part combined, the two states combined
CombineParts(part) ==
    /\ pc = "finished"
    /\ ~IsRun(parts)
    /\ part # {} /\ part # 1..Len(entries)
    /\ parts' = ReduceInParts(reducer, entries, part)
    /\ UNCHANGED <<reducer, rows, entries, pc, whole, reordered>>
    /\ UNCHANGED sumVars

DeliverAny == \E row \in RowsOf(reducer), cnt \in 1..MaxCnt : Deliver(row, cnt)

CombineAnyOrder == \E perm \in Perms(Len(entries)) : CombineReordered(perm)

CombineAnyParts == \E part \in SUBSET (1..Len(entries)) : CombineParts(part)

Next == DeliverAny \/ CombineWhole

NextPartitioned == DeliverAny \/ CombineWhole \/ CombineAnyOrder \/ CombineAnyParts

CombineReducers == {rd \in Reducer : rd.kind # "IntSum"}

Spec == InitGroup(CombineReducers) /\ [][NextPartitioned]_vars

SpecUnique == InitGroup({rd \in Reducer : rd.kind = "Unique"}) /\ [][Next]_vars

SpecArg == InitGroup({rd \in Reducer : rd.kind \in {"ArgMin", "ArgMax"}}) /\ [][Next]_vars

SpecArraySum == InitGroup({rd \in Reducer : rd.kind = "ArraySum"}) /\ [][Next]_vars

SpecAny == InitGroup({rd \in Reducer : rd.kind = "Any"}) /\ [][Next]_vars

SpecSortedTuple == InitGroup({rd \in Reducer : rd.kind = "SortedTuple"}) /\ [][Next]_vars

SpecTuple == InitGroup({rd \in Reducer : rd.kind = "Tuple"}) /\ [][Next]_vars

SpecTuples ==
    InitGroup({rd \in Reducer : rd.kind \in {"SortedTuple", "Tuple"}}) /\ [][Next]_vars

SpecInit ==
    InitGroup({rd \in Reducer : rd.kind \in {"IntSum", "FloatSum"}}) /\ [][Next]_vars

(***************************************************************************)
(* The IntSum accumulator: an insertion adds init(v), a retraction adds    *)
(* init(v) multiplied by -1.                                               *)
(***************************************************************************)
IntSumValues == {5, -3, 10}

Insert(v) ==
    /\ pcSum = "accumulate"
    /\ nIns + nRet < MaxOps
    /\ acc' = plus_equals(acc, IntSumInit(0, VInt(v)).st)
    /\ nIns' = nIns + 1
    /\ sumIns' = sumIns + v
    /\ UNCHANGED <<nRet, sumRet, pcSum, result>>
    /\ UNCHANGED groupVars

Retract(v) ==
    /\ pcSum = "accumulate"
    /\ nIns + nRet < MaxOps
    /\ acc' = plus_equals(acc, multiply(IntSumInit(0, VInt(v)).st, -1))
    /\ nRet' = nRet + 1
    /\ sumRet' = sumRet + v
    /\ UNCHANGED <<nIns, sumIns, pcSum, result>>
    /\ UNCHANGED groupVars

FinishSum ==
    /\ pcSum = "accumulate"
    /\ result' = IntSumFinish(acc)
    /\ pcSum' = "finished"
    /\ UNCHANGED <<acc, nIns, nRet, sumIns, sumRet>>
    /\ UNCHANGED groupVars

InsertAny == \E v \in IntSumValues : Insert(v)

RetractAny == \E v \in IntSumValues : Retract(v)

NextSum == InsertAny \/ RetractAny \/ FinishSum

SpecIntSum == InitGroup({Rd("IntSum", FALSE, 1)}) /\ [][NextSum]_vars

(***************************************************************************)
(* Claims.                                                                 *)
(***************************************************************************)
\* two outputs agree: both are the same Value, or both are a panic
SameOutput(a, b) == a.ok = b.ok /\ (a.ok => a.ret = b.ret)

\* C1: for every reducer with a combine operation, combining the two parts
\* of any partition of a group's entries and then combining the two
\* resulting states gives the same finish output as one combine over all
\* the entries, and so does one combine over the entries in another order.
C1_PartitionAndOrderAgree ==
    /\ IsRun(whole) /\ IsRun(parts) => SameOutput(whole, parts)
    /\ IsRun(whole) /\ IsRun(reordered) => SameOutput(whole, reordered)

\* sum of f(1) .. f(n)
Sigma(n, f(_)) ==
    LET s[i \in 0..n] == IF i = 0 THEN 0 ELSE s[i - 1] + f(i)
    IN  s[n]

NRows == Len(rows)
PrimaryOf(i) == rows[i].values[1]

\* C2: Unique.combine succeeds with the state whenever exactly one distinct
\* state is among the entries, also when several entries carry it, and
\* fails with the 'more than one distinct value' assertion exactly when
\* more than one distinct state is present; finish returns the stored value.
C2_UniqueFailsIffDistinctStates ==
    reducer.kind = "Unique" /\ IsRun(whole) =>
        LET distinct == {entries[i].state : i \in 1..Len(entries)}
        IN  /\ Cardinality(distinct) = 1 =>
                  whole.ok /\ \A st \in distinct : whole.ret = st.val
            /\ ~whole.ok <=> Cardinality(distinct) > 1

\* state added to itself k times
RECURSIVE AddTimes(_, _)
AddTimes(state, k) ==
    IF k = 1 THEN state ELSE plus_equals(AddTimes(state, k - 1), state)

\* C3: after any insertions and retractions the IntSum state is (rows
\* inserted minus rows retracted, sum inserted minus sum retracted), finish
\* returns that sum, multiply by k is k-fold addition, and a state plus its
\* multiple by -1 is zero, zero meaning count and sum are both 0.
C3_IntSumTracksInsertsAndRetracts ==
    /\ acc = IntSumState(nIns - nRet, sumIns - sumRet)
    /\ pcSum = "finished" => result = VInt(sumIns - sumRet)
    /\ \A k \in 1..(MaxCnt + 1) : multiply(acc, k) = AddTimes(acc, k)
    /\ is_zero(plus_equals(acc, multiply(acc, -1)))
    /\ is_zero(acc) <=> (nIns = nRet /\ sumIns = sumRet)

C3_Witness ==
    /\ pcSum = "finished"
    /\ nIns = 3 /\ sumIns = 12
    /\ nRet = 1 /\ sumRet = 10
    /\ result = VInt(2)

\* every entry (state, n) replaced by n entries (state, 1)
RECURSIVE Unroll(_)
Unroll(es) ==
    IF es = <<>> THEN <<>>
    ELSE [i \in 1..Head(es).cnt |-> Entry(Head(es).state, 1)] \o Unroll(Tail(es))

\* C4: for SortedTuple and Tuple a row's state supplied with multiplicity n
\* gives the same finish output as n entries of that state with
\* multiplicity 1, alone or among other entries.
C4_MultiplicityIsExpansion ==
    reducer.kind \in {"SortedTuple", "Tuple"} /\ IsRun(whole) =>
        /\ whole.ok
        /\ whole = Reduce(reducer, Unroll(entries))

C4_Witness ==
    /\ reducer.kind = "Tuple"
    /\ IsRun(whole)
    /\ Len(entries) = 2
    /\ entries[1].cnt = 2 /\ entries[1].state # <<>>
    /\ entries[2].cnt = 1 /\ entries[2].state # <<>>
    /\ Len(whole.ret.v) = 3

\* C5: ArgMin returns a pointer to the key of a row with the minimum value,
\* ArgMax to the key of a row with the maximum value, and among the rows
\* sharing that value both return the smallest key.
C5_ArgPicksExtremeSmallestKey ==
    reducer.kind \in {"ArgMin", "ArgMax"} /\ IsRun(whole) =>
        /\ whole.ok
        /\ \E i \in 1..NRows :
              /\ whole.ret = VPointer(rows[i].key)
              /\ \A j \in 1..NRows :
                    /\ reducer.kind = "ArgMin" => PrimaryOf(i).v <= PrimaryOf(j).v
                    /\ reducer.kind = "ArgMax" => PrimaryOf(i).v >= PrimaryOf(j).v
                    /\ PrimaryOf(j).v = PrimaryOf(i).v => rows[i].key <= rows[j].key

C5_Witness ==
    /\ reducer.kind = "ArgMax"
    /\ IsRun(whole)
    /\ NRows = 3
    /\ rows[1].key = 3 /\ PrimaryOf(1) = VInt(2)
    /\ rows[2].key = 2 /\ PrimaryOf(2) = VInt(5)
    /\ rows[3].key = 1 /\ PrimaryOf(3) = VInt(5)
    /\ whole.ret = VPointer(1)

\* C6: ArraySum over integer arrays of one shape returns the array of the
\* sums of element times multiplicity, whatever the order of the entries
\* ([1,2] once and [3,4] twice give [7,10]); entries holding both an integer
\* array and a float array fail.
C6_ArraySumWeightedSum ==
    reducer.kind = "ArraySum" /\ IsRun(whole) =>
        /\ (\A i \in 1..NRows : PrimaryOf(i).tag = "IntArray") =>
              /\ whole.ok
              /\ whole.ret.tag = "IntArray"
              /\ Len(whole.ret.v) = 2
              /\ \A e \in 1..2 :
                    whole.ret.v[e] =
                        Sigma(NRows, LAMBDA i : PrimaryOf(i).v[e] * rows[i].cnt)
        /\ (/\ \E i \in 1..NRows : PrimaryOf(i).tag = "IntArray"
            /\ \E i \in 1..NRows : PrimaryOf(i).tag = "FloatArray") => ~whole.ok

C6_Witness ==
    /\ reducer.kind = "ArraySum"
    /\ NRows = 2
    /\ PrimaryOf(1) = VIntArray(<<3, 4>>) /\ rows[1].cnt = 2
    /\ PrimaryOf(2) = VIntArray(<<1, 2>>) /\ rows[2].cnt = 1
    /\ whole = Ok(VIntArray(<<7, 10>>))

\* C7: Any returns the value of the row that minimizes (key salted with
\* SALT, value); that value depends on the set of rows only, not on the
\* order of the rows, their multiplicities or the run.
C7_AnyPicksSaltedMinimum ==
    reducer.kind = "Any" /\ IsRun(whole) =>
        /\ whole.ok
        /\ \E i \in 1..NRows :
              /\ whole.ret = PrimaryOf(i)
              /\ \A j \in 1..NRows :
                    \/ salted_with(rows[i].key, SALT) < salted_with(rows[j].key, SALT)
                    \/ /\ salted_with(rows[i].key, SALT) = salted_with(rows[j].key, SALT)
                       /\ PrimaryOf(i).v <= PrimaryOf(j).v
        /\ \A v \in {VInt(1), VInt(2)} :
              (\A i \in 1..NRows : rows[i].key = 2 => PrimaryOf(i) = v)
                  /\ (\E i \in 1..NRows : rows[i].key = 2) => whole.ret = v

C7_Witness ==
    /\ reducer.kind = "Any"
    /\ IsRun(whole)
    /\ NRows = 3
    /\ rows[1].key = 0 /\ rows[1].cnt = 2
    /\ rows[2].key = 2 /\ PrimaryOf(2) = VInt(2)
    /\ rows[3].key = 1 /\ PrimaryOf(3) = VInt(1)
    /\ whole.ret = VInt(2)

\* rows a Tuple or SortedTuple reducer leaves out: absent primary value
\* under skip-absent
Skipped(i) == reducer.skip_nones /\ PrimaryOf(i) = VNone

\* how often value val occurs in sequence q
Occurrences(q, val) == Cardinality({p \in 1..Len(q) : q[p] = val})

\* C8: SortedTuple's output is the ascending sequence of exactly the row
\* values counted with their multiplicities, absent values left out iff
\* skip-absent is set: [absent, 3, 1] gives [1, 3] with it, [absent, 1, 3]
\* without it.
C8_SortedTupleIsSortedMultiset ==
    reducer.kind = "SortedTuple" /\ IsRun(whole) =>
        /\ whole.ok
        /\ whole.ret.tag = "Tuple"
        /\ LET out == whole.ret.v
           IN  /\ \A p \in 1..Len(out), q \in 1..Len(out) :
                     p < q => ~ValueLess(out[q], out[p])
               /\ \A val \in {VNone, VInt(1), VInt(3)} :
                     Occurrences(out, val) =
                         Sigma(NRows, LAMBDA i :
                             IF PrimaryOf(i) = val /\ ~Skipped(i) THEN rows[i].cnt ELSE 0)
               /\ Len(out) = Sigma(NRows, LAMBDA i : IF Skipped(i) THEN 0 ELSE rows[i].cnt)
               /\ (/\ [i \in 1..NRows |-> PrimaryOf(i)] = <<VNone, VInt(3), VInt(1)>>
                   /\ \A i \in 1..NRows : rows[i].cnt = 1) =>
                      out = IF reducer.skip_nones THEN <<VInt(1), VInt(3)>>
                            ELSE <<VNone, VInt(1), VInt(3)>>

C8_Witness ==
    /\ reducer = Rd("SortedTuple", TRUE, 1)
    /\ [i \in 1..NRows |-> PrimaryOf(i)] = <<VNone, VInt(3), VInt(1)>>
    /\ \A i \in 1..NRows : rows[i].cnt = 1
    /\ whole = Ok(VTuple(<<VInt(1), VInt(3)>>))

\* the secondary value of row i as a number; rows without a secondary
\* column all get the same one
SecondaryOf(i) == IF reducer.ncols = 2 THEN rows[i].values[2].v ELSE 0

\* row i goes before row j in (secondary value, key, primary value) order
RowBefore(i, j) ==
    \/ SecondaryOf(i) < SecondaryOf(j)
    \/ SecondaryOf(i) = SecondaryOf(j) /\ rows[i].key < rows[j].key
    \/ /\ SecondaryOf(i) = SecondaryOf(j) /\ rows[i].key = rows[j].key
       /\ ValueLess(PrimaryOf(i), PrimaryOf(j))

RowSame(i, j) ==
    /\ SecondaryOf(i) = SecondaryOf(j)
    /\ rows[i].key = rows[j].key
    /\ PrimaryOf(i) = PrimaryOf(j)

\* C9: Tuple's output holds only the primary values of the rows, each
\* repeated by its multiplicity, in (secondary value, key, primary value)
\* order: ascending secondary value with ties broken by key, key order
\* when there is no secondary column; a row with an absent primary value is
\* left out iff skip-absent is set, whatever its secondary value.
C9_TupleOrderedBySecondaryThenKey ==
    reducer.kind = "Tuple" /\ IsRun(whole) =>
        /\ whole.ok
        /\ whole.ret.tag = "Tuple"
        /\ LET out == whole.ret.v
               Weight(i) == IF Skipped(i) THEN 0 ELSE rows[i].cnt
               Below(i) == Sigma(NRows, LAMBDA j : IF RowBefore(j, i) THEN Weight(j) ELSE 0)
               Equal(i) == Sigma(NRows, LAMBDA j : IF RowSame(j, i) THEN Weight(j) ELSE 0)
           IN  /\ Len(out) = Sigma(NRows, Weight)
               /\ \A i \in 1..NRows :
                     ~Skipped(i) =>
                         \A p \in (Below(i) + 1)..(Below(i) + Equal(i)) :
                             out[p] = PrimaryOf(i)

C9_Witness ==
    /\ reducer = Rd("Tuple", TRUE, 2)
    /\ NRows = 3
    /\ rows[1] = Row(1, <<VInt(3), VInt(2)>>, 1)
    /\ rows[2] = Row(2, <<VInt(1), VInt(1)>>, 2)
    /\ rows[3] = Row(1, <<VNone, VInt(1)>>, 1)
    /\ whole = Ok(VTuple(<<VInt(1), VInt(1), VInt(3)>>))

\* C10: IntSum.init panics on every value that is not an integer and never
\* returns a state for it, and returns (1, v) on an integer v;
\* FloatSum.init_unary never fails: it returns no state on a value that is
\* not a float, so the row is skipped, and the float itself on a float.
C10_InitErrorClasses ==
    /\ reducer.kind = "IntSum" =>
          LET ints == SelectSeq(rows, LAMBDA r : r.values[1].tag = "Int")
          IN  /\ pc = "panicked" <=> \E i \in 1..NRows : PrimaryOf(i).tag # "Int"
              /\ Len(entries) = Len(ints)
              /\ \A i \in 1..Len(ints) :
                    entries[i] = Entry(IntSumState(1, ints[i].values[1].v), ints[i].cnt)
    /\ reducer.kind = "FloatSum" =>
          LET floats == SelectSeq(rows, LAMBDA r : r.values[1].tag = "Float")
          IN  /\ pc # "panicked"
              /\ Len(entries) = Len(floats)
              /\ \A i \in 1..Len(floats) :
                    entries[i] = Entry(floats[i].values[1].v, floats[i].cnt)

C10_Witness ==
    /\ reducer.kind = "FloatSum"
    /\ NRows = 3
    /\ PrimaryOf(1) = VFloat(1)
    /\ PrimaryOf(2) = VInt(1)
    /\ PrimaryOf(3) = VFloat(FloatBig)
    /\ Len(entries) = 2
    /\ IsRun(whole)

====
